---- MODULE Spec2Model ----
(***************************************************************************)
(* cdrs-future: the connection handshake (CDRS::get_options, CDRS::start)  *)
(* and the request dispatch of a Session (prepare, execute, query, batch,  *)
(* listen_for, compressor, end) over one CDRSTransport.                    *)
(*                                                                         *)
(* Every request-style operation is                                        *)
(*     future::result(transport.write(frame)).and_then(closure)            *)
(* so the write happens in the call that builds the future and the closure *)
(* (the frame read and what follows it) runs when the future is polled.    *)
(* `pending` holds the futures that were built and have not completed;     *)
(* `last_done` is the future that completed (or was dropped) last, as its  *)
(* caller sees it. The `io` of a future lists the transport operations it  *)
(* has issued, in order.                                                   *)
(*                                                                         *)
(* The transport and the server behind it are the environment: a write or  *)
(* a frame read may fail, the server answers the requests it received in   *)
(* arrival order, and parse_frame takes the frame at the head of the       *)
(* stream whatever request it answers (no stream id is compared).          *)
(* A write is modelled as all-or-nothing (partial writes are not).         *)
(***************************************************************************)
EXTENDS Integers, Sequences, FiniteSets, TLC

\* ---------------------------------------------------------------- bounds
MaxFutures == 3      \* request-style calls (futures built) in one run

\* ------------------------------------------------------------ value sets
Compression == {"None", "Lz4", "Snappy"}

NoName == "no_name"
Schemes == {"X", "Y"}

\* The caller's authenticator: one that reports no scheme, and one per scheme.
Authenticators == {"NoneAuthenticator", "AuthenticatorX", "AuthenticatorY"}

get_cassandra_name(a) ==
    CASE a = "AuthenticatorX" -> "X"
      [] a = "AuthenticatorY" -> "Y"
      [] OTHER -> NoName

get_auth_token(a) ==
    CASE a = "AuthenticatorX" -> "token_of_X"
      [] a = "AuthenticatorY" -> "token_of_Y"
      [] OTHER -> "empty_token"

RequestOps == {"PREPARE", "EXECUTE", "QUERY", "BATCH"}

\* A response frame as the code sees it: its opcode and what get_body /
\* get_authenticator make of its body. body = "bad": get_body fails;
\* for AUTHENTICATE the body is the advertised scheme, or NoName.
\* The answer to a request or to REGISTER is never looked into by this
\* code: one frame stands for all of them.
ServerReplies(what) ==
    CASE what = "OPTIONS" ->
            {[opcode |-> "Supported", body |-> "ok"],
             [opcode |-> "Supported", body |-> "bad"],
             [opcode |-> "Error", body |-> "ok"]}
      [] what = "STARTUP" ->
            {[opcode |-> "Ready", body |-> "ok"],
             [opcode |-> "Error", body |-> "ok"],
             [opcode |-> "Authenticate", body |-> "bad"],
             [opcode |-> "Authenticate", body |-> NoName]}
            \cup {[opcode |-> "Authenticate", body |-> s] : s \in Schemes}
      [] what = "AUTH_RESPONSE" ->
            {[opcode |-> "AuthSuccess", body |-> "ok"],
             [opcode |-> "Error", body |-> "ok"]}
      [] what = "REGISTER" -> {[opcode |-> "Ready", body |-> "ok"]}
      [] OTHER -> {[opcode |-> "Result", body |-> "ok"]}

\* ----------------------------------------------------------------- state
VARIABLES
    owner,              \* who holds the transport (the CDRS value)
    authenticator,      \* CDRS.authenticator
    cdrs_compressor,    \* CDRS.compressor
    started,            \* Session.started
    session_compressor, \* Session.compressor
    pending,            \* the futures built and not yet completed
    last_done,          \* the future that completed or was dropped last
    nfutures,           \* futures built so far
    outbox,             \* requests written and not yet answered
    inbox,              \* response frames not yet read
    nwrites,            \* successful writes so far (numbers the requests)
    nreads,             \* frame reads (parse_frame calls) so far
    clones,             \* transports obtained from try_clone so far
    close_calls,        \* transport.close() calls so far
    shut_down,          \* a close(Shutdown::Both) has succeeded
    last_end,           \* what the last end() call did
    overlapped,         \* a call was made on the Session while another
                        \* future was pending
    read_failed,        \* a frame read of a call on the Session has failed
    session_id,         \* the id of the start future the Session came from
    written_frame,      \* the frame this step handed to transport.write
    parsed_with         \* the compressor this step handed to parse_frame

vars == <<owner, authenticator, cdrs_compressor, started, session_compressor,
          pending, last_done, nfutures, outbox, inbox, nwrites, nreads,
          clones, close_calls, shut_down, last_end, overlapped, read_failed,
          session_id, written_frame, parsed_with>>

conn_vars == <<authenticator, cdrs_compressor>>
sess_vars == <<started, session_compressor>>
end_vars == <<close_calls, shut_down, last_end>>
hist_vars == <<overlapped, read_failed, session_id>>

NoFuture == [id |-> 0, kind |-> "-", pc |-> "-", io |-> <<>>, res |-> "-",
             scheme |-> "-"]

Nothing == [what |-> "-", arg |-> "-"]

\* CDRS::new and the idle transport.
Init ==
    /\ owner = "connection"
    /\ authenticator \in Authenticators
    /\ cdrs_compressor = "None"
    /\ started = FALSE
    /\ session_compressor = "None"
    /\ pending = {}
    /\ last_done = NoFuture
    /\ nfutures = 0
    /\ outbox = <<>>
    /\ inbox = <<>>
    /\ nwrites = 0
    /\ nreads = 0
    /\ clones = 0
    /\ close_calls = 0
    /\ shut_down = FALSE
    /\ last_end = "none"
    /\ overlapped = FALSE
    /\ read_failed = FALSE
    /\ session_id = 0
    /\ written_frame = Nothing
    /\ parsed_with = "-"

\* ------------------------------------------------------------- transport
NoFrame == [n |-> 0, opcode |-> "-", body |-> "-"]

\* Whether a transport write may succeed: never after a successful
\* close(Shutdown::Both).
WriteResults == IF shut_down THEN {FALSE} ELSE BOOLEAN

\* The four request operations differ in the frame they encode only.
FrameClass(what) == IF what \in RequestOps THEN "REQUEST" ELSE what

\* transport.write(bytes): the request reaches the server iff the write
\* succeeded.
written(ok, what) ==
    IF ok THEN Append(outbox, [n |-> nwrites + 1, what |-> FrameClass(what)])
    ELSE outbox

\* A variant of write_io that takes every write for a success.
write_io_ignoring_result(ok, what) ==
    [op |-> "write", what |-> FrameClass(what), ok |-> TRUE, n |-> nwrites + 1]

write_io(ok, what) ==
    [op |-> "write", what |-> FrameClass(what), ok |-> ok,
     n |-> IF ok THEN nwrites + 1 ELSE 0]

\* A variant of parse_frame that leaves the frame it returns on the stream.
parse_frame_peek(stream) ==
    (IF stream # <<>>
     THEN {[ok |-> TRUE, frame |-> Head(stream), rest |-> stream]}
     ELSE {})
    \cup {[ok |-> FALSE, frame |-> NoFrame, rest |-> stream]}

\* parse_frame(&mut transport, &compressor): the frame at the head of the
\* stream, or a failure that may or may not have consumed it.
parse_frame(stream) ==
    (IF stream # <<>>
     THEN {[ok |-> TRUE, frame |-> Head(stream), rest |-> Tail(stream)],
           [ok |-> FALSE, frame |-> NoFrame, rest |-> Tail(stream)]}
     ELSE {})
    \cup {[ok |-> FALSE, frame |-> NoFrame, rest |-> stream]}

read_io(r) ==
    [op |-> "read", what |-> r.frame.opcode, ok |-> r.ok, n |-> r.frame.n]

NewFuture(kind, io) ==
    [id |-> nfutures + 1, kind |-> kind, pc |-> "created", io |-> <<io>>,
     res |-> "pending", scheme |-> "-"]

Created(kind) == {f \in pending : f.kind = kind /\ f.pc = "created"}

\* The future f completes with result res after the further transport
\* operations more.
Done(f, more, res) == [f EXCEPT !.pc = "done", !.io = @ \o more, !.res = res]

\* The server answers the oldest unanswered request.
ServerRespond ==
    /\ outbox # <<>>
    /\ \E f \in ServerReplies(Head(outbox).what) :
          inbox' = Append(inbox, [n |-> Head(outbox).n, opcode |-> f.opcode,
                                  body |-> f.body])
    /\ outbox' = Tail(outbox)
    /\ written_frame' = Nothing
    /\ parsed_with' = "-"
    /\ UNCHANGED <<owner, conn_vars, sess_vars, pending, last_done, nfutures,
                   nwrites, nreads, clones, end_vars, hist_vars>>

\* A variant of and_then that runs the closure whatever the write returned.
and_then_regardless(write_ok) == TRUE

\* future::result(write).map_err(..).and_then(closure): the closure runs
\* when the future is polled, and only if the write returned Ok.
and_then(write_ok) == write_ok

\* A variant of Build that returns the future without having written: the
\* write is left to the poll.
Build_unwritten(kind, what, arg) ==
    /\ nfutures < MaxFutures
    /\ pending' = pending \cup {NewFuture(kind, write_io(TRUE, what))}
    /\ written_frame' = Nothing
    /\ parsed_with' = "-"
    /\ nfutures' = nfutures + 1
    /\ overlapped' = (overlapped \/ pending # {})
    /\ UNCHANGED <<outbox, nwrites, inbox, nreads, clones, last_done,
                   read_failed, session_id>>

\* The call that builds a future: the write, then the future is returned.
Build(kind, what, arg) ==
    /\ nfutures < MaxFutures
    /\ \E ok \in WriteResults :
          /\ pending' = pending \cup {NewFuture(kind, write_io(ok, what))}
          /\ outbox' = written(ok, what)
          /\ nwrites' = IF ok THEN nwrites + 1 ELSE nwrites
    /\ written_frame' = [what |-> what, arg |-> arg]
    /\ parsed_with' = "-"
    /\ nfutures' = nfutures + 1
    /\ overlapped' = (overlapped \/ pending # {})
    /\ UNCHANGED <<inbox, nreads, clones, last_done, read_failed, session_id>>

\* ------------------------------------------------------- CDRS::get_options
\* A variant of resolve_supported_ops that takes any frame.
resolve_supported_ops_any(frame) == "Ok"

resolve_supported_ops(frame) ==
    IF frame.opcode = "Supported" /\ frame.body = "ok"
    THEN "Ok"
    ELSE "Err(Unexpected type of frame)"

get_options ==
    /\ owner = "connection"
    /\ Build("get_options", "OPTIONS", "-")
    /\ UNCHANGED <<owner, conn_vars, sess_vars, end_vars>>

poll_get_options ==
    /\ owner = "connection"
    /\ \E f \in Created("get_options") :
          /\ pending' = pending \ {f}
          /\ IF ~and_then(f.io[1].ok)
             THEN /\ last_done' = Done(f, <<>>, "Err(write)")
                  /\ parsed_with' = "-"
                  /\ UNCHANGED <<inbox, nreads>>
             ELSE \E r \in parse_frame(inbox) :
                     /\ inbox' = r.rest
                     /\ nreads' = nreads + 1
                     /\ parsed_with' = cdrs_compressor
                     /\ last_done' =
                           Done(f, <<read_io(r)>>,
                                IF r.ok THEN resolve_supported_ops(r.frame)
                                ELSE "Err(parse_frame)")
    /\ written_frame' = Nothing
    /\ UNCHANGED <<owner, conn_vars, sess_vars, nfutures, outbox, nwrites,
                   clones, end_vars, hist_vars>>

\* ------------------------------------------------------------ CDRS::start
\* Lines 85-99: Option::ok_or(..).map(closure). The closure itself returns a
\* Result, so auth_check is a Result of a Result: `outer` is Err when the
\* caller's authenticator reports no name, `inner` is what the comparison
\* with the server's scheme returned.
auth_check(server_scheme, a) ==
    IF get_cassandra_name(a) = NoName
    THEN [outer |-> "Err(No authenticator was provided)", inner |-> "-"]
    ELSE [outer |-> "Ok",
          inner |-> IF server_scheme # get_cassandra_name(a)
                    THEN "Err(Unsupported type of authenticator)"
                    ELSE "Ok"]

\* A variant of auth_check_failure that lets a missing authenticator pass.
auth_check_failure_never(check) == "Ok"

\* Lines 101-103: `if let Err(err) = auth_check { return Err(err) }` matches
\* the outer Result only.
auth_check_failure(check) ==
    IF check.outer # "Ok" THEN check.outer ELSE "Ok"

\* A variant of startup_decision that answers READY with AUTH_RESPONSE
\* whenever the caller has an authenticator.
startup_decision_always_auth(frame, a) ==
    CASE frame.opcode \in {"Ready", "Authenticate"} ->
            IF get_cassandra_name(a) = NoName THEN "Session" ELSE "AuthResponse"
      [] OTHER -> "panic(unimplemented)"

\* A variant of startup_decision that takes an unexpected opcode for READY.
startup_decision_lenient(frame, a) ==
    CASE frame.opcode = "Authenticate" ->
            IF frame.body = "bad" THEN "Err(get_body)"
            ELSE IF frame.body = NoName THEN "panic(expect)"
            ELSE IF get_cassandra_name(a) = NoName
                 THEN "Err(No authenticator was provided)"
            ELSE "AuthResponse"
      [] OTHER -> "Session"

\* Lines 67-115: what the closure does with the STARTUP response.
startup_decision(frame, a) ==
    CASE frame.opcode = "Ready" -> "Session"
      [] frame.opcode = "Authenticate" ->
            IF frame.body = "bad" THEN "Err(get_body)"
            ELSE IF frame.body = NoName THEN "panic(expect)"
            ELSE IF auth_check_failure(auth_check(frame.body, a)) # "Ok"
                 THEN auth_check_failure(auth_check(frame.body, a))
            ELSE "AuthResponse"
      [] OTHER -> "panic(unimplemented)"

\* A variant of auth_response_token that sends an empty token.
auth_response_no_token(a) == "empty_token"

\* The frame written at lines 105-109.
auth_response_token(a) == get_auth_token(a)

start ==
    /\ owner = "connection"
    /\ pending = {}
    /\ \E c \in Compression :
          /\ cdrs_compressor' = c
          /\ Build("start", "STARTUP", c)
    /\ owner' = "start_future"
    /\ UNCHANGED <<authenticator, sess_vars, end_vars>>

\* Session::start(cdrs): the new owner and the fields of the Session.
Session_start(f) ==
    /\ owner' = "session"
    /\ session_id' = f.id
    /\ started' = TRUE
    /\ session_compressor' = cdrs_compressor
    /\ overlapped' = FALSE
    /\ read_failed' = FALSE

\* The future ended without a Session: the CDRS it owned is dropped with it.
NoSession ==
    /\ owner' = "dropped"
    /\ UNCHANGED <<sess_vars, hist_vars>>

\* First poll of the start future: the closure up to its first blocking
\* point after the STARTUP response (the read of the AUTH_RESPONSE's answer).
poll_start ==
    /\ owner = "start_future"
    /\ \E f \in Created("start") :
          IF ~and_then(f.io[1].ok)
          THEN /\ pending' = pending \ {f}
               /\ last_done' = Done(f, <<>>, "Err(write)")
               /\ NoSession
               /\ written_frame' = Nothing
               /\ parsed_with' = "-"
               /\ UNCHANGED <<inbox, outbox, nwrites, nreads>>
          ELSE \E r \in parse_frame(inbox) :
                 LET d == IF r.ok THEN startup_decision(r.frame, authenticator)
                          ELSE "Err(parse_frame)"
                     rd == read_io(r)
                     tok == auth_response_token(authenticator)
                     g == [f EXCEPT !.scheme =
                              IF r.ok /\ r.frame.opcode = "Authenticate"
                              THEN r.frame.body ELSE "-"]
                 IN /\ inbox' = r.rest
                    /\ nreads' = nreads + 1
                    /\ parsed_with' = cdrs_compressor
                    /\ IF d = "AuthResponse"
                       THEN \E ok \in WriteResults :
                            LET wr == write_io(ok, "AUTH_RESPONSE") IN
                            /\ outbox' = written(ok, "AUTH_RESPONSE")
                            /\ written_frame' = [what |-> "AUTH_RESPONSE", arg |-> tok]
                            /\ nwrites' = IF ok THEN nwrites + 1 ELSE nwrites
                            /\ IF ok
                               THEN /\ pending' = (pending \ {f}) \cup
                                          {[g EXCEPT !.pc = "await_auth",
                                                     !.io = @ \o <<rd, wr>>]}
                                    /\ UNCHANGED <<last_done, owner, sess_vars,
                                                   hist_vars>>
                               ELSE /\ pending' = pending \ {f}
                                    /\ last_done' = Done(g, <<rd, wr>>, "Err(write)")
                                    /\ NoSession
                       ELSE /\ UNCHANGED <<outbox, nwrites>>
                            /\ written_frame' = Nothing
                            /\ pending' = pending \ {f}
                            /\ last_done' = Done(g, <<rd>>,
                                                 IF d = "Session" THEN "Ok" ELSE d)
                            /\ IF d = "Session" THEN Session_start(f) ELSE NoSession
    /\ UNCHANGED <<conn_vars, nfutures, clones, end_vars>>

\* Lines 110-112: the read after AUTH_RESPONSE; its frame is not inspected.
poll_start_auth ==
    /\ owner = "start_future"
    /\ \E f \in pending :
          /\ f.kind = "start"
          /\ f.pc = "await_auth"
          /\ \E r \in parse_frame(inbox) :
                /\ inbox' = r.rest
                /\ pending' = pending \ {f}
                /\ last_done' = Done(f, <<read_io(r)>>,
                                     IF r.ok THEN "Ok" ELSE "Err(parse_frame)")
                /\ IF r.ok THEN Session_start(f) ELSE NoSession
    /\ nreads' = nreads + 1
    /\ written_frame' = Nothing
    /\ parsed_with' = cdrs_compressor
    /\ UNCHANGED <<conn_vars, nfutures, outbox, nwrites, clones, end_vars>>

\* ---------------------------------------------------------------- Session
\* A variant of build_flags that starts from a default flag.
build_flags_with_default(with_tracing, with_warnings) ==
    <<"Tracing">>
    \o (IF with_tracing THEN <<"Tracing">> ELSE <<>>)
    \o (IF with_warnings THEN <<"Warning">> ELSE <<>>)

\* Lines 171-177 (and 199-205, 230-238, 264-272): the flags vector.
build_flags(with_tracing, with_warnings) ==
    (IF with_tracing THEN <<"Tracing">> ELSE <<>>)
    \o (IF with_warnings THEN <<"Warning">> ELSE <<>>)

\* A variant of may_send that admits one request in flight at a time.
may_send_serialized == Created("request") = {}

\* What prepare, execute, query and batch require of the Session before
\* they write: nothing (neither `started` nor a request in flight is
\* looked at).
may_send == TRUE

\* The common shape of prepare, execute, query and batch: encode the frame
\* with the flags, write it, and return the future whose closure reads.
send_request(op, with_tracing, with_warnings) ==
    /\ owner = "session"
    /\ may_send
    /\ Build("request", op, [with_tracing |-> with_tracing,
                             with_warnings |-> with_warnings,
                             flags |-> build_flags(with_tracing, with_warnings)])
    /\ UNCHANGED <<owner, conn_vars, sess_vars, end_vars>>

prepare == \E tr \in BOOLEAN, wa \in BOOLEAN : send_request("PREPARE", tr, wa)

execute == \E tr \in BOOLEAN, wa \in BOOLEAN : send_request("EXECUTE", tr, wa)

query == \E tr \in BOOLEAN, wa \in BOOLEAN : send_request("QUERY", tr, wa)

batch == \E tr \in BOOLEAN, wa \in BOOLEAN : send_request("BATCH", tr, wa)

\* A variant of request_compressor that reads the connection's field.
request_compressor_of_cdrs == cdrs_compressor

\* `&self.compressor` in the closures of the Session's operations: the
\* Session's field, as it is when the closure runs.
request_compressor == session_compressor

\* The closure of a request future: parse_frame with the session's
\* compressor as it is when the future is polled; the frame is returned
\* as it is.
poll_request ==
    /\ owner = "session"
    /\ \E f \in Created("request") :
          /\ pending' = pending \ {f}
          /\ IF ~and_then(f.io[1].ok)
             THEN /\ last_done' = Done(f, <<>>, "Err(write)")
                  /\ parsed_with' = "-"
                  /\ UNCHANGED <<inbox, nreads, read_failed>>
             ELSE \E r \in parse_frame(inbox) :
                     /\ inbox' = r.rest
                     /\ nreads' = nreads + 1
                     /\ parsed_with' = request_compressor
                     /\ last_done' = Done(f, <<read_io(r)>>,
                                          IF r.ok THEN "Ok" ELSE "Err(parse_frame)")
                     /\ read_failed' = (read_failed \/ ~r.ok)
    /\ written_frame' = Nothing
    /\ UNCHANGED <<owner, conn_vars, sess_vars, nfutures, outbox, nwrites,
                   clones, end_vars, overlapped, session_id>>

\* Session::compressor(new).
compressor ==
    /\ owner = "session"
    /\ \E new \in Compression : session_compressor' = new
    /\ written_frame' = Nothing
    /\ parsed_with' = "-"
    /\ UNCHANGED <<owner, conn_vars, started, pending, last_done, nfutures,
                   outbox, inbox, nwrites, nreads, clones, end_vars, hist_vars>>

\* TransportTcp::close: always Err("not implemented").
TransportTcp_close == FALSE

\* close() of a CDRSTransport in general: it shuts the stream down or fails.
close_results == {TransportTcp_close, TRUE}

\* CDRS::drop_connection: transport.close(Shutdown::Both), its error mapped.
drop_connection(ok) ==
    /\ close_calls' = close_calls + 1
    /\ shut_down' = (shut_down \/ ok)
    /\ last_end' = IF ok THEN "closed" ELSE "close_failed"

\* A variant of end_closes without the `if self.started`.
end_closes_always == TRUE

\* Whether end() goes on to close: `if self.started`.
end_closes == started

\* A variant of started_after_end that takes a failed close back.
started_after_end_restoring(close_ok) == ~close_ok

\* Line 153: the flag is cleared before the close and whatever it returns.
started_after_end(close_ok) == FALSE

\* Session::end: the close happens only under `if self.started`; its error
\* is printed and dropped.
end ==
    /\ owner = "session"
    /\ written_frame' = Nothing
    /\ parsed_with' = "-"
    /\ IF end_closes
       THEN \E ok \in close_results :
               /\ drop_connection(ok)
               /\ started' = started_after_end(ok)
       ELSE /\ UNCHANGED <<started, close_calls, shut_down>>
            /\ last_end' = "no_op"
    /\ UNCHANGED <<owner, conn_vars, session_compressor, pending, last_done,
                   nfutures, outbox, inbox, nwrites, nreads, clones, hist_vars>>

\* Session::listen_for(self, events): the Session moves into the future.
listen_for ==
    /\ owner = "session"
    /\ pending = {}
    /\ Build("listen_for", "REGISTER", "-")
    /\ owner' = "listen_future"
    /\ UNCHANGED <<conn_vars, sess_vars, end_vars>>

\* A variant of listen_for_result that makes the Listener whatever the
\* read returned.
listen_for_result_unchecked(r) == "Ok"

\* Lines 293-294: parse_frame(..).and_then(|_| Ok(new_listener(transport))):
\* the Listener is made only from a read that succeeded.
listen_for_result(r) == IF r.ok THEN "Ok" ELSE "Err(parse_frame)"

\* Its closure: one frame read, then new_listener(transport).
poll_listen_for ==
    /\ owner = "listen_future"
    /\ \E f \in Created("listen_for") :
          /\ pending' = pending \ {f}
          /\ IF ~and_then(f.io[1].ok)
             THEN /\ last_done' = Done(f, <<>>, "Err(write)")
                  /\ owner' = "dropped"
                  /\ parsed_with' = "-"
                  /\ UNCHANGED <<inbox, nreads>>
             ELSE \E r \in parse_frame(inbox) :
                     /\ inbox' = r.rest
                     /\ nreads' = nreads + 1
                     /\ parsed_with' = request_compressor
                     /\ last_done' = Done(f, <<read_io(r)>>, listen_for_result(r))
                     /\ owner' = IF listen_for_result(r) = "Ok"
                                 THEN "listener" ELSE "dropped"
    /\ written_frame' = Nothing
    /\ UNCHANGED <<conn_vars, sess_vars, nfutures, outbox, nwrites, clones,
                   end_vars, hist_vars>>

\* The Session goes out of scope. Neither Session nor CDRS implements Drop:
\* the fields are dropped and no method of the Session runs.
drop_session ==
    /\ owner = "session"
    /\ pending = {}
    /\ owner' = "dropped"
    /\ written_frame' = Nothing
    /\ parsed_with' = "-"
    /\ UNCHANGED <<conn_vars, sess_vars, pending, last_done, nfutures, outbox,
                   inbox, nwrites, nreads, clones, end_vars, hist_vars>>

\* A variant of TransportTcp_try_clone that hands out a second transport
\* over the same stream.
TransportTcp_try_clone_ok == TRUE

\* TransportTcp::try_clone: always Err("not implemented").
TransportTcp_try_clone == FALSE

\* CDRSTransport::try_clone called on the transport, wherever it is.
try_clone ==
    /\ owner # "dropped"
    /\ clones' = IF TransportTcp_try_clone THEN clones + 1 ELSE clones
    /\ clones' <= 1
    /\ written_frame' = Nothing
    /\ parsed_with' = "-"
    /\ UNCHANGED <<owner, conn_vars, sess_vars, pending, last_done, nfutures,
                   outbox, inbox, nwrites, nreads, end_vars, hist_vars>>

Next ==
    \/ ServerRespond
    \/ get_options
    \/ poll_get_options
    \/ start
    \/ poll_start
    \/ poll_start_auth
    \/ prepare
    \/ execute
    \/ query
    \/ batch
    \/ poll_request
    \/ compressor
    \/ end
    \/ listen_for
    \/ poll_listen_for
    \/ drop_session
    \/ try_clone

Spec == Init /\ [][Next]_vars

\* ================================================================= claims
\* The futures of start that exist: the one in progress or the one that
\* completed last.
StartFutures == {f \in pending \cup {last_done} : f.kind = "start"}

\* The first frame read by the start future f came in and had this opcode.
StartupAnswer(f, opcode) ==
    /\ Len(f.io) >= 2
    /\ f.io[2].op = "read"
    /\ f.io[2].ok
    /\ f.io[2].what = opcode

AuthResponsesOf(f) ==
    {k \in DOMAIN f.io : f.io[k].op = "write" /\ f.io[k].what = "AUTH_RESPONSE"}

ReadsOf(f) == {k \in DOMAIN f.io : f.io[k].op = "read"}

WritesOf(f) == {k \in DOMAIN f.io : f.io[k].op = "write"}

\* The step completes a future of this kind.
Completes(kind) == last_done' # last_done /\ last_done'.kind = kind

\* C1: when the STARTUP answer is AUTHENTICATE with scheme X and the
\* caller's authenticator reports another scheme Y, start() fails with an
\* error, writes no AUTH_RESPONSE and yields no Session.
C1_MismatchIsRejected ==
    \A f \in StartFutures :
        (/\ StartupAnswer(f, "Authenticate")
         /\ f.scheme \in Schemes
         /\ get_cassandra_name(authenticator) \in Schemes \ {f.scheme})
        => /\ AuthResponsesOf(f) = {}
           /\ f.pc = "done"
           /\ f.res # "Ok"
           /\ owner = "dropped"

\* C2: when the STARTUP answer is AUTHENTICATE and the caller's
\* authenticator reports no scheme name, start() fails (with the "No
\* authenticator was provided" error when the frame names a scheme), writes
\* no AUTH_RESPONSE, reads no second frame and yields no Session.
C2_NoAuthenticatorFails ==
    \A f \in StartFutures :
        (/\ StartupAnswer(f, "Authenticate")
         /\ get_cassandra_name(authenticator) = NoName)
        => /\ f.pc = "done"
           /\ f.res \notin {"Ok", "pending"}
           /\ f.scheme \in Schemes => f.res = "Err(No authenticator was provided)"
           /\ AuthResponsesOf(f) = {}
           /\ Cardinality(ReadsOf(f)) = 1
           /\ Cardinality(WritesOf(f)) = 1
           /\ owner = "dropped"

C2_Witness ==
    /\ last_done.kind = "start"
    /\ StartupAnswer(last_done, "Authenticate")
    /\ last_done.scheme = "X"
    /\ authenticator = "NoneAuthenticator"
    /\ last_done.res = "Err(No authenticator was provided)"

\* C3: when the STARTUP answer is READY, the start future completes with a
\* Session whose started flag is true, after exactly one write (STARTUP) and
\* exactly one frame read, and no AUTH_RESPONSE is written, whatever the
\* caller's authenticator.
C3_ReadyStartsSession ==
    [][(Completes("start") /\ StartupAnswer(last_done', "Ready"))
       => /\ last_done'.res = "Ok"
          /\ Len(last_done'.io) = 2
          /\ last_done'.io[1] = [op |-> "write", what |-> "STARTUP", ok |-> TRUE,
                                 n |-> last_done'.io[1].n]
          /\ AuthResponsesOf(last_done') = {}
          /\ written_frame' = Nothing
          /\ outbox' = outbox
          /\ nwrites' = nwrites
          /\ owner' = "session"
          /\ started' = TRUE]_vars

C3_Witness ==
    /\ last_done.kind = "start"
    /\ StartupAnswer(last_done, "Ready")
    /\ authenticator = "AuthenticatorX"
    /\ last_done.res = "Ok"
    /\ owner = "session"
    /\ started

\* The start future f read AUTHENTICATE with the scheme that the caller's
\* authenticator reports.
AuthMatch(f) ==
    /\ StartupAnswer(f, "Authenticate")
    /\ f.scheme \in Schemes
    /\ get_cassandra_name(authenticator) = f.scheme

C4_Sequence(f) ==
    /\ f.pc \in {"await_auth", "done"}
    /\ Len(f.io) >= 3
    /\ f.io[1].op = "write" /\ f.io[1].what = "STARTUP" /\ f.io[1].ok
    /\ f.io[3].op = "write" /\ f.io[3].what = "AUTH_RESPONSE"
    /\ AuthResponsesOf(f) = {3}
    /\ f.pc = "await_auth" => Len(f.io) = 3 /\ f.io[3].ok
    /\ f.pc = "done" =>
          IF f.io[3].ok
          THEN /\ Len(f.io) = 4
               /\ f.io[4].op = "read"
               /\ f.res = IF f.io[4].ok THEN "Ok" ELSE "Err(parse_frame)"
          ELSE Len(f.io) = 3 /\ f.res = "Err(write)"

\* C4: when the STARTUP answer is AUTHENTICATE with the scheme the caller's
\* authenticator reports, the start future writes STARTUP, reads one frame,
\* writes exactly one AUTH_RESPONSE that carries the authenticator's token
\* and reads one frame (a transport operation that fails ends the sequence
\* there, with that error); it completes with a started Session exactly when
\* that last read did not fail, whatever the opcode of the frame read.
C4_AuthHandshake ==
    /\ [](\A f \in StartFutures : AuthMatch(f) => C4_Sequence(f))
    /\ [](written_frame.what = "AUTH_RESPONSE"
            => written_frame.arg = get_auth_token(authenticator))
    /\ [][(Completes("start") /\ AuthMatch(last_done'))
           => IF last_done'.res = "Ok"
              THEN owner' = "session" /\ started'
              ELSE owner' = "dropped"]_vars

C4_Witness ==
    /\ last_done.kind = "start"
    /\ AuthMatch(last_done)
    /\ Len(last_done.io) = 4
    /\ last_done.io[4].what = "Error"
    /\ last_done.res = "Ok"
    /\ owner = "session"
    /\ started

\* The start future f read an answer to STARTUP that is neither READY nor
\* AUTHENTICATE.
UnexpectedAnswer(f) ==
    /\ f.kind = "start"
    /\ Len(f.io) >= 2
    /\ f.io[2].op = "read"
    /\ f.io[2].ok
    /\ f.io[2].what \notin {"Ready", "Authenticate"}

\* C5: when the STARTUP answer has an opcode other than READY and
\* AUTHENTICATE, the handshake aborts: the start future yields no Session,
\* and after the read of that answer nothing is written to or read from the
\* transport.
C5_UnexpectedOpcodeAborts ==
    /\ [](\A f \in StartFutures : UnexpectedAnswer(f)
            => /\ f.pc = "done"
               /\ f.res = "panic(unimplemented)"
               /\ Len(f.io) = 2
               /\ owner = "dropped"
               /\ pending = {}
               /\ written_frame = Nothing)
    /\ [][UnexpectedAnswer(last_done)
           => /\ written_frame' = Nothing
              /\ parsed_with' = "-"
              /\ Len(inbox') >= Len(inbox)
              /\ nwrites' = nwrites
              /\ owner' = "dropped"]_vars

C5_Witness ==
    /\ UnexpectedAnswer(last_done)
    /\ last_done.io[2].what = "Error"
    /\ last_done.res = "panic(unimplemented)"

\* C6: however many times end() is called on a Session, among whatever other
\* operations, transport.close is called exactly once, by the first end();
\* a later end() touches neither the transport nor the Session, whether that
\* close succeeded or failed.
C6_CloseOnce ==
    /\ [](/\ close_calls <= 1
          /\ close_calls = 0 <=> last_end = "none"
          /\ last_end = "no_op" => close_calls = 1)
    /\ [][/\ (close_calls' # close_calls)
             => (last_end = "none" /\ started /\ close_calls' = 1)
          /\ (last_end # "none" /\ last_end' # last_end)
             => (/\ last_end' = "no_op"
                 /\ written_frame' = Nothing
                 /\ parsed_with' = "-"
                 /\ UNCHANGED <<close_calls, shut_down, started, owner, inbox,
                                outbox, nwrites, pending, last_done>>)]_vars

C6_Witness ==
    /\ last_end = "no_op"
    /\ close_calls = 1
    /\ ~shut_down
    /\ Created("request") # {}

\* C7: a Session's started flag is true from its construction until the
\* first end() and false from then on; a close that fails inside end() does
\* not set it back, and end() has no error to return.
C7_StartedUntilEnd ==
    /\ [](owner \in {"session", "listen_future"}
            => (started <=> last_end = "none"))
    /\ [](last_end = "close_failed" => ~started)
    /\ [][(started' # started)
           => \/ ~started /\ owner = "start_future" /\ owner' = "session"
              \/ started /\ last_end = "none" /\ last_end' # "none"]_vars

C7_Witness ==
    /\ owner = "session"
    /\ last_end = "close_failed"
    /\ ~started

OptionsFutures == {f \in pending \cup {last_done} : f.kind = "get_options"}

C8_Sequence(f) ==
    /\ f.io[1].op = "write" /\ f.io[1].what = "OPTIONS"
    /\ Cardinality(WritesOf(f)) = 1
    /\ f.pc = "created" => Len(f.io) = 1
    /\ f.pc = "done" =>
          IF f.io[1].ok
          THEN /\ Len(f.io) = 2
               /\ f.io[2].op = "read"
               /\ f.res = "Ok" => f.io[2].ok /\ f.io[2].what = "Supported"
               /\ (f.io[2].ok /\ f.io[2].what # "Supported")
                     => f.res = "Err(Unexpected type of frame)"
               /\ ~f.io[2].ok => f.res = "Err(parse_frame)"
          ELSE Len(f.io) = 1 /\ f.res = "Err(write)"

\* C8: get_options writes once (OPTIONS) and then reads once (no read after
\* a write that failed); an answer that is not SUPPORTED makes it fail with
\* an error; it writes nothing more, and the connection's compressor and
\* authenticator are what they were.
C8_GetOptions ==
    /\ [](\A f \in OptionsFutures : C8_Sequence(f))
    /\ [][(Completes("get_options")
            \/ \E f \in pending' \ pending : f.kind = "get_options")
           => /\ UNCHANGED <<authenticator, cdrs_compressor>>
              /\ Completes("get_options")
                   => (written_frame' = Nothing /\ nwrites' = nwrites
                       /\ outbox' = outbox)]_vars

C8_Witness ==
    /\ last_done.kind = "get_options"
    /\ Len(last_done.io) = 2
    /\ last_done.io[2].ok
    /\ last_done.io[2].what = "Error"
    /\ last_done.res = "Err(Unexpected type of frame)"

\* A call on the Session completed, and no call on it was made while another
\* future was pending.
SequentialCallDone ==
    /\ last_done.kind = "request"
    /\ last_done.pc = "done"
    /\ ~overlapped

C9_OneWriteOneRead ==
    IF last_done.io[1].ok
    THEN /\ Len(last_done.io) = 2
         /\ last_done.io[1].op = "write"
         /\ last_done.io[2].op = "read"
    ELSE Len(last_done.io) = 1 /\ last_done.res = "Err(write)"

C9_OwnAnswer ==
    last_done.res = "Ok" => last_done.io[2].n = last_done.io[1].n

C10_NoSerialization ==
    (owner = "session" /\ nfutures < MaxFutures /\ Created("request") # {})
    => ENABLED query

C10_Witness ==
    /\ last_done.kind = "request"
    /\ last_done.res = "Ok"
    /\ \E f \in Created("request") :
          /\ f.io[1].ok
          /\ last_done.io[2].n = f.io[1].n
          /\ last_done.io[1].n # f.io[1].n

\* The flags of the request frame this step encoded, as a set.
EncodedFlags ==
    {written_frame.arg.flags[k] : k \in DOMAIN written_frame.arg.flags}

\* C11: the flags handed to the request encoder by prepare, execute, query
\* and batch are exactly Tracing if with_tracing and Warning if
\* with_warnings, each at most once: none for a false boolean, no default.
C11_FlagsExact ==
    written_frame.what \in RequestOps
    => /\ EncodedFlags =
            (IF written_frame.arg.with_tracing THEN {"Tracing"} ELSE {})
            \cup (IF written_frame.arg.with_warnings THEN {"Warning"} ELSE {})
       /\ Len(written_frame.arg.flags) = Cardinality(EncodedFlags)

C11_Witness ==
    /\ written_frame.what = "BATCH"
    /\ written_frame.arg.with_warnings
    /\ ~written_frame.arg.with_tracing
    /\ written_frame.arg.flags = <<"Warning">>

\* The value that holds the transport: the Connection also while the start
\* future holds it, the Session also while the listen_for future holds it.
Holder ==
    CASE owner \in {"connection", "start_future"} -> "Connection"
      [] owner \in {"session", "listen_future"} -> "Session"
      [] owner = "listener" -> "Listener"
      [] OTHER -> "none"

OwnerMoves ==
    {<<"connection", "start_future">>, <<"start_future", "session">>,
     <<"start_future", "dropped">>, <<"session", "listen_future">>,
     <<"listen_future", "listener">>, <<"listen_future", "dropped">>,
     <<"session", "dropped">>}

\* C12: as long as the transport exists exactly one of Connection, Session
\* and Listener holds it; it moves from the Connection to the Session by
\* start() and from the Session to the Listener by listen_for() and never
\* back; only the holder operates on it; and try_clone never yields a second
\* transport.
C12_ExclusiveOwnership ==
    /\ [](clones = 0)
    /\ [](owner # "dropped" => Holder \in {"Connection", "Session", "Listener"})
    /\ [][owner' # owner => <<owner, owner'>> \in OwnerMoves]_vars
    /\ [][/\ written_frame'.what \in {"OPTIONS", "STARTUP"}
             => owner = "connection"
          /\ written_frame'.what = "AUTH_RESPONSE" => owner = "start_future"
          /\ written_frame'.what \in RequestOps \cup {"REGISTER"}
             => owner = "session"
          /\ (last_end' # last_end \/ close_calls' # close_calls)
             => owner = "session"
          /\ nreads' # nreads
             => owner \in {"connection", "start_future", "session",
                           "listen_future"}]_vars

C12_Witness ==
    /\ owner = "listener"
    /\ clones = 0
    /\ session_id = 1
    /\ last_done.kind = "listen_for"

ListenFutures == {f \in pending \cup {last_done} : f.kind = "listen_for"}

C13_Sequence(f) ==
    /\ f.io[1].op = "write" /\ f.io[1].what = "REGISTER"
    /\ Cardinality(WritesOf(f)) = 1
    /\ f.pc = "created" => Len(f.io) = 1
    /\ f.pc = "done" =>
          IF f.io[1].ok
          THEN /\ Len(f.io) = 2
               /\ f.io[2].op = "read"
               /\ f.res = IF f.io[2].ok THEN "Ok" ELSE "Err(parse_frame)"
          ELSE Len(f.io) = 1 /\ f.res = "Err(write)"

\* C13: listen_for writes one REGISTER frame and then reads one frame (no
\* read after a write that failed); the Listener exists only after that read
\* succeeded; from the call on nothing is issued on the Session (no request,
\* no end()), and a Session yields at most one Listener.
C13_ListenFor ==
    /\ [](\A f \in ListenFutures : C13_Sequence(f))
    /\ [](owner = "listener"
            => /\ last_done.kind = "listen_for"
               /\ last_done.res = "Ok"
               /\ Len(last_done.io) = 2
               /\ last_done.io[2].ok)
    /\ [][(owner \in {"listen_future", "listener"} \/ ListenFutures # {})
           => /\ written_frame' = Nothing
              /\ UNCHANGED <<started, session_compressor, last_end, close_calls,
                             shut_down, nwrites, nfutures>>
              /\ owner' \in {owner, "listener", "dropped"}]_vars
    /\ [][owner' = "listener" => owner \in {"listen_future", "listener"}]_vars

C13_Witness ==
    /\ owner = "listener"
    /\ last_done.kind = "listen_for"
    /\ last_done.io[1].ok
    /\ last_done.io[2].ok
    /\ last_done.io[2].n = last_done.io[1].n

\* C14: when a Session is dropped without end() having been called and
\* without having been consumed by listen_for, the transport's close has
\* been called.
C14_DropCloses ==
    (/\ owner = "dropped"
     /\ session_id # 0
     /\ last_done.kind # "listen_for"
     /\ last_end = "none")
    => close_calls = 1

ErrorResults ==
    {"Err(write)", "Err(parse_frame)", "Err(get_body)",
     "Err(No authenticator was provided)",
     "Err(Unsupported type of authenticator)",
     "Err(Unexpected type of frame)"}

\* C15: when the STARTUP answer is AUTHENTICATE and its body names no
\* authenticator class, start() returns an error to its caller, writes no
\* AUTH_RESPONSE and yields no Session.
C15_MissingSchemeIsError ==
    \A f \in StartFutures :
        (StartupAnswer(f, "Authenticate") /\ f.scheme = NoName)
        => /\ f.pc = "done"
           /\ f.res \in ErrorResults
           /\ AuthResponsesOf(f) = {}
           /\ owner = "dropped"

\* Every future that exists: in progress, or the one that completed last.
Futures == {f \in pending \cup {last_done} : f.kind # "-"}

\* The request of f that failed is the second of the handshake.
AuthLeg(f) ==
    /\ f.kind = "start"
    /\ Len(f.io) >= 3
    /\ f.io[3].what = "AUTH_RESPONSE"

\* f returned the error of a write: that write is the only one attempted
\* for the request and the last thing f did; nothing was read after it.
C16_FailedWrite(f) ==
    LET last == f.io[Len(f.io)] IN
    /\ last.op = "write" /\ ~last.ok
    /\ \A k \in 1..(Len(f.io) - 1) : f.io[k].ok
    /\ Len(f.io) = IF AuthLeg(f) THEN 3 ELSE 1

\* f returned the error of a frame read: one successful write of the
\* request, then that one read attempt, the last thing f did.
C16_FailedRead(f) ==
    LET last == f.io[Len(f.io)] IN
    /\ last.op = "read" /\ ~last.ok
    /\ f.io[Len(f.io) - 1].op = "write" /\ f.io[Len(f.io) - 1].ok
    /\ \A k \in 1..(Len(f.io) - 1) : f.io[k].ok
    /\ Len(f.io) = IF AuthLeg(f) THEN 4 ELSE 2

\* C16: a failure ends the request and nothing is retried: after a failed
\* write the operation returns that error with one write attempted and
\* nothing read, after a failed frame read it returns that error with one
\* write and one read attempted (counted for the request that failed: for
\* start, the STARTUP or the AUTH_RESPONSE leg); the step that fails neither
\* closes the transport nor changes the started flag.
C16_FailureIsTerminal ==
    /\ [](\A f \in Futures :
            /\ f.res = "Err(write)" => C16_FailedWrite(f)
            /\ f.res = "Err(parse_frame)" => C16_FailedRead(f)
            /\ (f.pc = "done" /\ \E k \in DOMAIN f.io : ~f.io[k].ok)
               => f.res \in {"Err(write)", "Err(parse_frame)"})
    /\ [][(last_done' # last_done
            /\ last_done'.res \in {"Err(write)", "Err(parse_frame)"})
           => /\ UNCHANGED <<started, close_calls, shut_down, last_end>>
              /\ nwrites' = nwrites
              /\ outbox' = outbox
              /\ last_done' \notin pending']_vars

C16_Witness ==
    /\ last_done.kind = "request"
    /\ last_done.res = "Err(parse_frame)"
    /\ Len(last_done.io) = 2
    /\ started
    /\ close_calls = 0
    /\ \E f \in Created("request") : ~f.io[1].ok

\* C17: the Session that start(c) yields has compressor c, which is the
\* connection's; compressor(new) does no transport I/O and changes the
\* Session's compressor only; every frame a call on the Session reads is
\* parsed with the Session's compressor as last set, and the frames already
\* returned stay as they are.
C17_SessionCompressor ==
    /\ [][written_frame'.what = "STARTUP"
           => cdrs_compressor' = written_frame'.arg]_vars
    /\ [][owner # "connection" => cdrs_compressor' = cdrs_compressor]_vars
    /\ [][(owner' = "session" /\ owner # "session")
           => session_compressor' = cdrs_compressor]_vars
    /\ [][session_compressor' # session_compressor
           => \/ owner' = "session" /\ owner = "start_future"
              \/ /\ owner = "session"
                 /\ written_frame' = Nothing
                 /\ parsed_with' = "-"
                 /\ UNCHANGED <<owner, started, cdrs_compressor, authenticator,
                                inbox, outbox, nwrites, nreads, pending,
                                last_done, close_calls, shut_down>>]_vars
    /\ [][(nreads' # nreads /\ owner \in {"session", "listen_future"})
           => /\ parsed_with' = session_compressor
              /\ session_compressor' = session_compressor]_vars

C17_Witness ==
    /\ last_done.kind = "request"
    /\ last_done.res = "Ok"
    /\ parsed_with = "Snappy"
    /\ session_compressor = "Snappy"
    /\ cdrs_compressor = "Lz4"

\* C18: once end() has been called on a Session, no prepare, execute, query,
\* batch or listen_for call on it writes to the transport (and so none
\* reads from it).
C18_NoIOAfterEnd ==
    \A f \in pending :
        (/\ f.kind \in {"request", "listen_for"}
         /\ f.id = nfutures
         /\ written_frame.what \in RequestOps \cup {"REGISTER"}
         /\ f.io[1].ok)
        => last_end = "none"

\* C19: the call that builds a future performs the write before it returns
\* and reads nothing; frames are read only when a future is polled, and
\* only by a future whose write succeeded; a future that is not polled has
\* read nothing, so its request stays written and its answer unread.
C19_EagerWriteLazyRead ==
    /\ [][\A f \in pending' \ pending :
            f.pc = "created"
            => /\ Len(f.io) = 1
               /\ f.io[1].op = "write"
               /\ written_frame'.what # "-"
               /\ FrameClass(written_frame'.what) = f.io[1].what
               /\ IF f.io[1].ok
                  THEN /\ nwrites' = nwrites + 1
                       /\ f.io[1].n = nwrites'
                       /\ outbox' = Append(outbox, [n |-> nwrites',
                                                    what |-> f.io[1].what])
                  ELSE nwrites' = nwrites /\ outbox' = outbox
               /\ nreads' = nreads
               /\ inbox' = inbox
               /\ parsed_with' = "-"]_vars
    /\ [][nreads' # nreads
           => \E f \in pending : f.io[1].ok /\ f \notin pending']_vars
    /\ [](\A f \in pending : f.pc = "created" => ReadsOf(f) = {})

C19_Witness ==
    /\ owner = "session"
    /\ last_done.kind = "request"
    /\ \E f \in Created("request") :
          /\ f.io[1].ok
          /\ f.id < last_done.id
          /\ \E k \in DOMAIN inbox : inbox[k].n = f.io[1].n

\* C20: up to the handing over of the transport to a Listener, the frame
\* reads issued never outnumber the successful writes, and every read of an
\* operation comes right after a successful write of that operation.
C20_ReadsWithinWrites ==
    /\ nreads <= nwrites
    /\ \A f \in Futures : \A k \in ReadsOf(f) :
          /\ k > 1
          /\ f.io[k - 1].op = "write"
          /\ f.io[k - 1].ok

C20_Witness ==
    /\ nreads = 3
    /\ nwrites = 3
    /\ owner = "session"
    /\ last_done.kind = "request"
====
